---- MODULE Spec2Model ----
(***************************************************************************)
(* Model of the LinkedIn OAuth connect / callback / status / disconnect    *)
(* flow (oauth.controller, oauth.service, oauth_providers schema).         *)
(*                                                                         *)
(* Three specifications share the same data operators:                       *)
(*   Spec      requests are handled one after another; every handler is    *)
(*             one action.                                                 *)
(*   ConcSpec  callbacks run as concurrent processes that interleave at    *)
(*             each await of linkedInCallback / storeOAuthProvider.        *)
(*   RowSpec   linkedInStatus applied, as the clock advances, to any row   *)
(*             the oauth_providers schema admits.                          *)
(***************************************************************************)
EXTENDS Integers, Sequences, FiniteSets, TLC

(* ---------------------------- bounds ----------------------------------- *)
MaxTime == 2000

(* --------------------------- value sets -------------------------------- *)
Undefined == "undefined"
Null == "null"
NullTime == -1

Users == {"u1", "u2"}
ConcUsers == {"u1"}
Providers == {"linkedin", "google"}
UnknownUser == "u9"
StateUserIds == Users \cup {UnknownUser}
Sessions == Users \cup {Undefined}
Nonces == {"n1"}
Codes == {"", "c1"}
RefreshTokens == {"r1", "r2"}
RowIds == 1..4
Procs == {"cb1", "cb2"}

PostingScope == "w_member_social"
CallbackScopes == <<"openid", "profile", "email", "w_member_social">>

SeqRange(s) == {s[i] : i \in 1..Len(s)}
Scopes(list) == [isNull |-> FALSE, list |-> list]
NullScopes == [isNull |-> TRUE, list |-> <<>>]

(* ------------------------- state encoding ------------------------------ *)
\* A text is what a string holds: a serialized JSON object (its key/value
\* pairs in order), the JSON texts null and 5, a text that is not JSON, or
\* the empty string.
ObjectText(pairs) == [t |-> "object", pairs |-> pairs]
TextNull == [t |-> "null", pairs |-> <<>>]
TextNumber == [t |-> "number", pairs |-> <<>>]
TextGarbage == [t |-> "garbage", pairs |-> <<>>]
TextEmpty == [t |-> "empty", pairs |-> <<>>]

\* JSON.stringify of { state, userId }: pairs in insertion order, a key
\* whose value is undefined is dropped.
JSONstringify(obj) ==
    LET keep(k) == IF obj[k] = Undefined THEN <<>> ELSE << <<k, obj[k]>> >>
    IN  ObjectText(keep("state") \o keep("userId"))

\* Buffer.from(text).toString('base64')
Base64(text) == [b64 |-> text]

\* Buffer.from(state, 'base64').toString('utf-8'); never throws
FromBase64(state) == state.b64

\* !state of a query parameter: absent or the empty string
IsFalsyParam(state) == state.b64.t = "empty"

\* JSON.parse followed by the read of .userId: JSON.parse throws on a text
\* that is not JSON; reading a property of null throws; a number has no
\* such property; an object yields the property or undefined.
JSONparse(text) ==
    IF text.t \in {"garbage", "empty"}
    THEN [throws |-> TRUE, kind |-> "none", userId |-> Undefined]
    ELSE IF text.t = "null"
    THEN [throws |-> FALSE, kind |-> "null", userId |-> Undefined]
    ELSE IF text.t = "number"
    THEN [throws |-> FALSE, kind |-> "number", userId |-> Undefined]
    ELSE [throws |-> FALSE, kind |-> "object",
          userId |-> IF \E p \in SeqRange(text.pairs) : p[1] = "userId"
                     THEN (CHOOSE p \in SeqRange(text.pairs) : p[1] = "userId")[2]
                     ELSE Undefined]

\* mutant: the user id is left out of the state
EncodeState_NoUser(nonce, userId) ==
    Base64(JSONstringify([state |-> nonce, userId |-> Undefined]))

\* linkedInConnect: the state handed to the client
EncodeState(nonce, userId) ==
    Base64(JSONstringify([state |-> nonce, userId |-> userId]))

\* mutant: the decode has no catch, a state that does not parse goes on
\* without a user id
DecodeState_NoCatch(state) ==
    [ok |-> TRUE, userId |-> JSONparse(FromBase64(state)).userId]

\* linkedInCallback: the try block around JSON.parse and decoded.userId
DecodeState(state) ==
    LET parsed == JSONparse(FromBase64(state))
    IN  IF parsed.throws \/ parsed.kind = "null"
        THEN [ok |-> FALSE, userId |-> Undefined]
        ELSE [ok |-> TRUE, userId |-> parsed.userId]

\* every state parameter a client can send
MissingState == Base64(TextEmpty)
StateParams ==
    {EncodeState(n, u) : n \in Nonces, u \in StateUserIds \cup {Undefined}}
    \cup {Base64(TextNull), Base64(TextNumber), Base64(TextGarbage), MissingState}

(* --------------------------- credential store -------------------------- *)
\* a row of oauth_providers
Row(id, userId, provider, providerUserId, accessToken, refreshToken, tokenExpiresAt, scopes) ==
    [id |-> id, userId |-> userId, provider |-> provider,
     providerUserId |-> providerUserId, accessToken |-> accessToken,
     refreshToken |-> refreshToken, tokenExpiresAt |-> tokenExpiresAt,
     scopes |-> scopes]

\* where user_id = userId and provider = provider
FindRows(rows, userId, provider) ==
    {r \in rows : r.userId = userId /\ r.provider = provider}

\* .limit(1)
Limit1(rows) == IF rows = {} THEN {} ELSE {CHOOSE r \in rows : TRUE}

\* mutant: the table has no uniqueness constraint
UniqueViolation_Dropped(rows, row) == FALSE

\* unique().on(userId, provider)
UniqueViolation(rows, row) == FindRows(rows, row.userId, row.provider) # {}

\* user_id uuid not null references users(id)
UserIdViolation(row) == row.userId \notin Users

\* mutant: the update writes data.refreshToken as it is
JsOr_NoFallback(a, b) == a

\* a JS value || another
JsOr(a, b) == IF a \in {Undefined, Null, ""} THEN b ELSE a

\* an undefined column value is left out of the insert: the column is NULL
ColumnValue(v) == IF v = Undefined THEN Null ELSE v

\* storeOAuthProvider, first statement: tokenExpiresAt
TokenExpiresAt(time, expiresIn) == time + expiresIn * 1000

\* storeOAuthProvider, the select; postgres rejects an undefined parameter
SelectThrows(userId) == userId = Undefined
SelectExisting(rows, userId, provider) == Limit1(FindRows(rows, userId, provider))

\* storeOAuthProvider, the update branch: where id = existing.id
UpdateExisting(rows, existing, data, tokenExpiresAt) ==
    {IF r.id = existing.id
     THEN [r EXCEPT !.accessToken = data.accessToken,
                    !.refreshToken = JsOr(data.refreshToken, existing.refreshToken),
                    !.tokenExpiresAt = tokenExpiresAt,
                    !.scopes = Scopes(data.scopes)]
     ELSE r : r \in rows}

\* storeOAuthProvider, the insert branch
NewRow(id, userId, provider, data, tokenExpiresAt) ==
    Row(id, userId, provider, data.providerUserId, data.accessToken,
        ColumnValue(data.refreshToken), tokenExpiresAt, Scopes(data.scopes))
InsertThrows(rows, row) ==
    IF UserIdViolation(row) THEN "insert:user"
    ELSE IF UniqueViolation(rows, row) THEN "insert:unique"
    ELSE ""

\* storeOAuthProvider run without interruption
storeOAuthProvider(rows, userId, provider, data, time, id) ==
    LET tokenExpiresAt == TokenExpiresAt(time, data.expiresIn)
        existing == IF SelectThrows(userId) THEN {} ELSE SelectExisting(rows, userId, provider)
        row == NewRow(id, userId, provider, data, tokenExpiresAt)
    IN  IF SelectThrows(userId)
        THEN [throws |-> "select", inserted |-> FALSE, rows |-> rows]
        ELSE IF existing # {}
        THEN [throws |-> "", inserted |-> FALSE,
              rows |-> UpdateExisting(rows, CHOOSE r \in existing : TRUE, data, tokenExpiresAt)]
        ELSE IF InsertThrows(rows, row) # ""
        THEN [throws |-> InsertThrows(rows, row), inserted |-> FALSE, rows |-> rows]
        ELSE [throws |-> "", inserted |-> TRUE, rows |-> rows \cup {row}]

\* mutant: the lookup drops the user id from its where clause
getOAuthProvider_AnyUser(rows, userId, provider) ==
    Limit1({r \in rows : r.provider = provider})

\* getOAuthProvider: the set holding the row, or empty for null
getOAuthProvider(rows, userId, provider) == Limit1(FindRows(rows, userId, provider))

\* mutant: a token counts as expired only strictly after its expiry
isTokenExpired_Strict(expiresAt, time) ==
    IF expiresAt = NullTime THEN TRUE ELSE time > expiresAt

\* isTokenExpired
isTokenExpired(expiresAt, time) ==
    IF expiresAt = NullTime THEN TRUE ELSE time >= expiresAt

(* ---------------------------- provider --------------------------------- *)
\* what exchangeLinkedInCode returns or that it throws
NoToken == [accessToken |-> "", refreshToken |-> Undefined, expiresIn |-> 0]
TokenData ==
    {[accessToken |-> "a1", refreshToken |-> "r1", expiresIn |-> 1],
     [accessToken |-> "a2", refreshToken |-> "r2", expiresIn |-> 2],
     [accessToken |-> "a2", refreshToken |-> Undefined, expiresIn |-> 2]}
ExchangeOutcomes ==
    {[ok |-> FALSE, token |-> NoToken]} \cup {[ok |-> TRUE, token |-> t] : t \in TokenData}

\* the LinkedIn account an access token was granted by
AccountOf(accessToken) == IF accessToken = "a1" THEN "p1" ELSE "p2"

\* what getLinkedInProfile(accessToken) returns or that it throws
ProfileOutcomes(accessToken) ==
    {[ok |-> FALSE, id |-> ""], [ok |-> TRUE, id |-> AccountOf(accessToken)]}

(* ---------------------------- handlers --------------------------------- *)
Bool(b) == IF b THEN "true" ELSE "false"

\* a finished request: what it was given, the provider calls it made, the
\* call that threw, and its reply
NoResp ==
    [op |-> "none", session |-> Undefined, status |-> 0,
     code |-> "", state |-> MissingState, userId |-> Undefined,
     calls |-> <<>>, token |-> NoToken, profileId |-> "",
     connected |-> Undefined, canPost |-> Undefined, needsRefresh |-> Undefined,
     expiresAt |-> NullTime, threw |-> ""]

\* mutant: the preHandler lets every request through
authenticate_AllowAll(session) == TRUE

\* app.authenticate: jwtVerify fails without a valid session token
authenticate(session) == session # Undefined

\* linkedInConnect
linkedInConnect(session, nonce) ==
    IF ~authenticate(session)
    THEN [NoResp EXCEPT !.op = "connect", !.session = session, !.status = 401]
    ELSE [NoResp EXCEPT !.op = "connect", !.session = session, !.status = 200,
                        !.state = EncodeState(nonce, session)]

\* the data linkedInCallback hands to storeOAuthProvider
CallbackData(token, profileId) ==
    [providerUserId |-> profileId, accessToken |-> token.accessToken,
     refreshToken |-> token.refreshToken, expiresIn |-> token.expiresIn,
     scopes |-> CallbackScopes]

\* linkedInCallback, the parameter check and the decode of the state: the
\* 400 reply, or the request with the user id it goes on with (status 0)
CallbackParams(code, state) ==
    LET base == [NoResp EXCEPT !.op = "callback", !.code = code, !.state = state]
        decoded == DecodeState(state)
    IN  IF code = "" \/ IsFalsyParam(state)
        THEN [base EXCEPT !.status = 400]
        ELSE IF ~decoded.ok
        THEN [base EXCEPT !.status = 400]
        ELSE [base EXCEPT !.userId = decoded.userId]

\* mutant: a failed exchange is tried a second time before giving up
AfterExchange_Retry(r, ex) ==
    IF ~ex.ok
    THEN [r EXCEPT !.status = 500, !.calls = r.calls \o <<"exchange", "exchange">>,
                   !.threw = "exchange"]
    ELSE [r EXCEPT !.calls = Append(r.calls, "exchange"), !.token = ex.token]

\* linkedInCallback, await exchangeLinkedInCode(code)
AfterExchange(r, ex) ==
    IF ~ex.ok
    THEN [r EXCEPT !.status = 500, !.calls = Append(r.calls, "exchange"), !.threw = "exchange"]
    ELSE [r EXCEPT !.calls = Append(r.calls, "exchange"), !.token = ex.token]

\* linkedInCallback, await getLinkedInProfile(tokenData.accessToken)
AfterProfile(r, pr) ==
    IF ~pr.ok
    THEN [r EXCEPT !.status = 500, !.calls = Append(r.calls, "profile"), !.threw = "profile",
                   !.token = NoToken]
    ELSE [r EXCEPT !.calls = Append(r.calls, "profile"), !.profileId = pr.id]

\* the reply of a callback whose storeOAuthProvider threw / returned
StoreThrew(r, cause) ==
    [r EXCEPT !.status = 500, !.threw = cause, !.token = NoToken, !.profileId = ""]
StoreReturned(r) == [r EXCEPT !.status = 200]

\* linkedInCallback, up to the store: the reply it ends with and the
\* provider calls it made, or that it goes on to storeOAuthProvider
CallbackBefore(code, state, ex, pr) ==
    LET checked == CallbackParams(code, state)
        exchanged == AfterExchange(checked, ex)
    IN  IF checked.status # 0 THEN checked
        ELSE IF exchanged.status # 0 THEN exchanged
        ELSE AfterProfile(exchanged, pr)

\* mutant: the connection is stored right after the exchange, before the
\* profile is fetched
linkedInCallback_StoreBeforeProfile(rows, code, state, ex, pr, time, id) ==
    LET before == CallbackBefore(code, state, ex, pr)
        early == storeOAuthProvider(rows, before.userId, "linkedin",
                                    CallbackData(ex.token, ""), time, id)
        stored == storeOAuthProvider(rows, before.userId, "linkedin",
                                     CallbackData(before.token, before.profileId), time, id)
    IN  IF before.threw = "profile"
        THEN [resp |-> before, rows |-> early.rows, inserted |-> early.inserted]
        ELSE IF before.status # 0
        THEN [resp |-> before, rows |-> rows, inserted |-> FALSE]
        ELSE IF stored.throws # ""
        THEN [resp |-> StoreThrew(before, stored.throws), rows |-> rows, inserted |-> FALSE]
        ELSE [resp |-> StoreReturned(before), rows |-> stored.rows, inserted |-> stored.inserted]

\* linkedInCallback run without interruption: the reply and the rows
linkedInCallback(rows, code, state, ex, pr, time, id) ==
    LET before == CallbackBefore(code, state, ex, pr)
        stored == storeOAuthProvider(rows, before.userId, "linkedin",
                                     CallbackData(before.token, before.profileId), time, id)
    IN  IF before.status # 0
        THEN [resp |-> before, rows |-> rows, inserted |-> FALSE]
        ELSE IF stored.throws # ""
        THEN [resp |-> StoreThrew(before, stored.throws), rows |-> rows, inserted |-> FALSE]
        ELSE [resp |-> StoreReturned(before), rows |-> stored.rows, inserted |-> stored.inserted]

\* provider.scopes?.includes('w_member_social')
ScopesInclude(scopes, scope) ==
    IF scopes.isNull THEN Undefined ELSE Bool(scope \in SeqRange(scopes.list))

\* !isExpired && x
JsAndNot(isExpired, x) == IF isExpired THEN "false" ELSE x

\* linkedInStatus
linkedInStatus(rows, session, time) ==
    LET base == [NoResp EXCEPT !.op = "status", !.session = session]
        found == getOAuthProvider(rows, session, "linkedin")
        provider == CHOOSE r \in found : TRUE
        isExpired == isTokenExpired(provider.tokenExpiresAt, time)
    IN  IF ~authenticate(session)
        THEN [base EXCEPT !.status = 401]
        ELSE IF found = {}
        THEN [base EXCEPT !.status = 200, !.connected = "false", !.canPost = "false"]
        ELSE [base EXCEPT !.status = 200, !.connected = "true",
                          !.canPost = JsAndNot(isExpired, ScopesInclude(provider.scopes, PostingScope)),
                          !.expiresAt = provider.tokenExpiresAt,
                          !.needsRefresh = Bool(isExpired)]

\* mutant: the delete drops the provider from its where clause
DeleteRows_AllProviders(rows, userId, provider) ==
    {r \in rows : r.userId # userId}

\* linkedInDisconnect: the delete statement
DeleteRows(rows, userId, provider) == rows \ FindRows(rows, userId, provider)

\* mutant: a disconnect that finds nothing to delete answers 404
linkedInDisconnect_NotFound(rows, session) ==
    LET base == [NoResp EXCEPT !.op = "disconnect", !.session = session]
    IN  IF ~authenticate(session)
        THEN [resp |-> [base EXCEPT !.status = 401], rows |-> rows]
        ELSE IF FindRows(rows, session, "linkedin") = {}
        THEN [resp |-> [base EXCEPT !.status = 404], rows |-> rows]
        ELSE [resp |-> [base EXCEPT !.status = 200],
              rows |-> DeleteRows(rows, session, "linkedin")]

\* linkedInDisconnect
linkedInDisconnect(rows, session) ==
    LET base == [NoResp EXCEPT !.op = "disconnect", !.session = session]
    IN  IF ~authenticate(session)
        THEN [resp |-> [base EXCEPT !.status = 401], rows |-> rows]
        ELSE [resp |-> [base EXCEPT !.status = 200],
              rows |-> DeleteRows(rows, session, "linkedin")]

(* --------------------------- registration ------------------------------ *)
\* what register and login requests carry: two well-formed emails and one
\* that is not, names and passwords on both sides of the schema's lengths
Emails == {"a@x.io", "b@x.io"}
BodyEmails == Emails \cup {"not-an-email"}
BodyNames == {"Ann", "Bob", "A"}
BodyPasswords == {"password1", "password2", "short"}
LoginPasswords == BodyPasswords \cup {""}
Salts == {"s1", "s2"}
UserIds == 1..3
NoUserId == 0

\* registerSchema and loginSchema
MinNameLength == 2
MinPasswordLength == 8
MinLoginPasswordLength == 1
IsEmail(text) == text \in Emails
registerSchema(body) ==
    /\ IsEmail(body.email)
    /\ Len(body.name) >= MinNameLength
    /\ Len(body.password) >= MinPasswordLength
loginSchema(body) ==
    /\ IsEmail(body.email)
    /\ Len(body.password) >= MinLoginPasswordLength

\* bcrypt.hash: the digest of the password under a random salt, which the
\* hash carries
hashPassword(password, salt) == [salt |-> salt, digest |-> <<salt, password>>]

\* a password_hash column that is NULL
NullHash == [salt |-> "", digest |-> <<>>]

\* mutant: the comparison hashes under one fixed salt, not the stored one
verifyPassword_FixedSalt(password, hash) == hashPassword(password, "s1") = hash

\* bcrypt.compare: hashes the password under the salt of the stored hash
verifyPassword(password, hash) == hashPassword(password, hash.salt) = hash

\* the rows of users
DefaultPreferences ==
    [brand_voice |-> "professional", tone |-> "informative", default_hashtags |-> <<>>]
UserRow(id, email, name, passwordHash, preferences) ==
    [id |-> id, email |-> email, name |-> name, passwordHash |-> passwordHash,
     preferences |-> preferences]
NoUser == UserRow(NoUserId, "", "", NullHash, DefaultPreferences)
FindByEmail(rows, email) == {u \in rows : u.email = email}

\* the messages of the errors the service throws
EmailExists == "User with this email already exists"
InvalidEmailOrPassword == "Invalid email or password"
PasswordNotSet == "Password not set for this user"

\* mutant: register inserts without looking for the email first
AuthService_register_NoLookup(rows, data, salt, id) ==
    LET newUser == UserRow(id, data.email, data.name,
                           hashPassword(data.password, salt), DefaultPreferences)
    IN  [throws |-> "", user |-> newUser, rows |-> rows \cup {newUser}]

\* AuthService.register
AuthService_register(rows, data, salt, id) ==
    LET existingUser == Limit1(FindByEmail(rows, data.email))
        newUser == UserRow(id, data.email, data.name,
                           hashPassword(data.password, salt), DefaultPreferences)
    IN  IF existingUser # {}
        THEN [throws |-> EmailExists, user |-> NoUser, rows |-> rows]
        ELSE [throws |-> "", user |-> newUser, rows |-> rows \cup {newUser}]

\* AuthService.login
AuthService_login(rows, email, password) ==
    LET found == Limit1(FindByEmail(rows, email))
        user == CHOOSE u \in found : TRUE
    IN  IF found = {}
        THEN [throws |-> InvalidEmailOrPassword, user |-> NoUser]
        ELSE IF user.passwordHash = NullHash
        THEN [throws |-> PasswordNotSet, user |-> NoUser]
        ELSE IF ~verifyPassword(password, user.passwordHash)
        THEN [throws |-> InvalidEmailOrPassword, user |-> NoUser]
        ELSE [throws |-> "", user |-> user]

\* a finished register or login request: its body, the error the service
\* threw, and the reply
NoReply ==
    [op |-> "none", email |-> "", name |-> "", password |-> "", threw |-> "",
     status |-> 0, error |-> "", message |-> "", userId |-> NoUserId]

\* AuthController.register
AuthController_register(rows, body, salt, id) ==
    LET base == [NoReply EXCEPT !.op = "register", !.email = body.email,
                                !.name = body.name, !.password = body.password]
        res == AuthService_register(rows, body, salt, id)
    IN  IF ~registerSchema(body)
        THEN [resp |-> [base EXCEPT !.status = 400, !.error = "Validation Error"],
              rows |-> rows]
        ELSE IF res.throws = EmailExists
        THEN [resp |-> [base EXCEPT !.threw = res.throws, !.status = 409,
                                    !.error = "Conflict", !.message = res.throws],
              rows |-> rows]
        ELSE IF res.throws # ""
        THEN [resp |-> [base EXCEPT !.threw = res.throws, !.status = 500,
                                    !.error = "Internal Server Error",
                                    !.message = "Failed to register user"],
              rows |-> rows]
        ELSE [resp |-> [base EXCEPT !.status = 201,
                                    !.message = "User registered successfully",
                                    !.userId = res.user.id],
              rows |-> res.rows]

\* mutant: the catch of login maps only the first of the two messages
LoginCatch_OneMessage(base, message) ==
    IF message = InvalidEmailOrPassword
    THEN [base EXCEPT !.threw = message, !.status = 401, !.error = "Unauthorized",
                      !.message = "Invalid email or password"]
    ELSE [base EXCEPT !.threw = message, !.status = 500,
                      !.error = "Internal Server Error", !.message = "Failed to login"]

\* AuthController.login, the catch for an error the service threw
LoginCatch(base, message) ==
    IF message = InvalidEmailOrPassword \/ message = PasswordNotSet
    THEN [base EXCEPT !.threw = message, !.status = 401, !.error = "Unauthorized",
                      !.message = "Invalid email or password"]
    ELSE [base EXCEPT !.threw = message, !.status = 500,
                      !.error = "Internal Server Error", !.message = "Failed to login"]

\* AuthController.login
AuthController_login(rows, body) ==
    LET base == [NoReply EXCEPT !.op = "login", !.email = body.email,
                                !.password = body.password]
        res == AuthService_login(rows, body.email, body.password)
    IN  IF ~loginSchema(body)
        THEN [base EXCEPT !.status = 400, !.error = "Validation Error"]
        ELSE IF res.throws # ""
        THEN LoginCatch(base, res.throws)
        ELSE [base EXCEPT !.status = 200, !.message = "Login successful",
                          !.userId = res.user.id]

(* ----------------------------- state ----------------------------------- *)
VARIABLES
    db,       \* the rows of oauth_providers
    now,      \* the clock, in milliseconds
    issued,   \* the <<state, user>> pairs handed out by linkedInConnect
    resp,     \* the request that finished last
    pc,       \* ConcSpec: where each callback in flight stands
    loc,      \* ConcSpec: the locals of each callback in flight
    users,    \* AuthSpec: the rows of users
    registered \* AuthSpec: what each successful register was given and returned

vars == <<db, now, issued, resp, pc, loc, users, registered>>

NoLocals == [resp |-> NoResp, tokenExpiresAt |-> NullTime, existing |-> {}]

Init ==
    /\ db = {}
    /\ now = 0
    /\ issued = {}
    /\ resp = NoResp
    /\ pc = [p \in Procs |-> "idle"]
    /\ loc = [p \in Procs |-> NoLocals]
    /\ users = {}
    /\ registered = {}

(* --------------------- requests one after another ---------------------- *)
Connect ==
    \E session \in Sessions, nonce \in Nonces :
        /\ resp' = linkedInConnect(session, nonce)
        /\ issued' = IF resp'.status = 200
                     THEN issued \cup {<<resp'.state, session>>} ELSE issued
        /\ UNCHANGED <<db, now, pc, loc, users, registered>>

\* defaultRandom(): an id that no row has and no callback in flight holds
FreshId ==
    CHOOSE i \in RowIds :
        /\ \A r \in db : r.id # i
        /\ \A p \in Procs : \A r \in loc[p].existing : r.id # i
        /\ \A j \in RowIds :
              ((\A r \in db : r.id # j) /\ (\A p \in Procs : \A r \in loc[p].existing : r.id # j))
              => i <= j

\* the outcomes of the provider calls a callback gets to make: none when
\* the request is rejected before the exchange, no profile outcome when
\* the exchange fails
NoExchange == [ok |-> FALSE, token |-> NoToken]
NoProfile == [ok |-> FALSE, id |-> ""]
ExchangeFor(code, state) ==
    IF CallbackBefore(code, state, NoExchange, NoProfile).calls = <<>>
    THEN {NoExchange} ELSE ExchangeOutcomes
ProfileFor(ex) == IF ex.ok THEN ProfileOutcomes(ex.token.accessToken) ELSE {NoProfile}

\* the query strings a callback arrives with: every state with a code, and
\* a missing code
CallbackQueries ==
    {[code |-> c, state |-> s] : c \in Codes \ {""}, s \in StateParams}
    \cup {[code |-> "", state |-> EncodeState(n, u)] : n \in Nonces, u \in ConcUsers}

Callback ==
    \E q \in CallbackQueries :
      \E ex \in ExchangeFor(q.code, q.state) :
        \E pr \in ProfileFor(ex) :
          LET res == linkedInCallback(db, q.code, q.state, ex, pr, now, FreshId)
          IN  /\ resp' = res.resp
              /\ db' = res.rows
              /\ UNCHANGED <<now, issued, pc, loc, users, registered>>

Status ==
    \E session \in Sessions :
        /\ resp' = linkedInStatus(db, session, now)
        /\ UNCHANGED <<db, now, issued, pc, loc, users, registered>>

Disconnect ==
    \E session \in Sessions :
        LET res == linkedInDisconnect(db, session)
        IN  /\ resp' = res.resp
            /\ db' = res.rows
            /\ UNCHANGED <<now, issued, pc, loc, users, registered>>

Tick ==
    /\ now < MaxTime
    /\ now' = now + 1000
    /\ resp' = [NoResp EXCEPT !.op = "tick"]
    /\ UNCHANGED <<db, issued, pc, loc, users, registered>>

\* The clock stands still in Spec and ConcSpec: no handler but
\* linkedInStatus reads a stored expiry, and RowSpec advances the clock
\* under it.
Next == Connect \/ Callback \/ Status \/ Disconnect

Spec == Init /\ [][Next]_vars

(* ------------------- callbacks running concurrently -------------------- *)
\* the requests the concurrent callbacks are given: well-formed ones for
\* one and the same (user, provider) pair; callbacks for different users
\* read and write disjoint rows
ConcCodes == Codes \ {""}
ConcStates == {EncodeState(n, u) : n \in Nonces, u \in ConcUsers}

Finish(p, r) ==
    /\ resp' = r
    /\ pc' = [pc EXCEPT ![p] = "idle"]
    /\ loc' = [loc EXCEPT ![p] = NoLocals]

\* the request arrives: parameter check and decode
CbStart(p) ==
    /\ pc[p] = "idle"
    /\ \E code \in ConcCodes, state \in ConcStates :
         LET r == CallbackParams(code, state)
         IN  IF r.status # 0
             THEN Finish(p, r)
             ELSE /\ pc' = [pc EXCEPT ![p] = "exchange"]
                  /\ loc' = [loc EXCEPT ![p].resp = r]
                  /\ UNCHANGED resp
    /\ UNCHANGED <<db, now, issued, users, registered>>

\* await exchangeLinkedInCode
CbExchange(p) ==
    /\ pc[p] = "exchange"
    /\ \E ex \in ExchangeOutcomes :
         LET r == AfterExchange(loc[p].resp, ex)
         IN  IF r.status # 0
             THEN Finish(p, r)
             ELSE /\ pc' = [pc EXCEPT ![p] = "profile"]
                  /\ loc' = [loc EXCEPT ![p].resp = r]
                  /\ UNCHANGED resp
    /\ UNCHANGED <<db, now, issued, users, registered>>

\* await getLinkedInProfile
CbProfile(p) ==
    /\ pc[p] = "profile"
    /\ \E pr \in ProfileOutcomes(loc[p].resp.token.accessToken) :
         LET r == AfterProfile(loc[p].resp, pr)
         IN  IF r.status # 0
             THEN Finish(p, r)
             ELSE /\ pc' = [pc EXCEPT ![p] = "select"]
                  /\ loc' = [loc EXCEPT ![p].resp = r]
                  /\ UNCHANGED resp
    /\ UNCHANGED <<db, now, issued, users, registered>>

\* storeOAuthProvider: tokenExpiresAt and the awaited select
CbSelect(p) ==
    /\ pc[p] = "select"
    /\ LET r == loc[p].resp
       IN  IF SelectThrows(r.userId)
           THEN Finish(p, StoreThrew(r, "select"))
           ELSE /\ pc' = [pc EXCEPT ![p] = "write"]
                /\ loc' = [loc EXCEPT ![p].tokenExpiresAt = TokenExpiresAt(now, r.token.expiresIn),
                                      ![p].existing = SelectExisting(db, r.userId, "linkedin")]
                /\ UNCHANGED resp
    /\ UNCHANGED <<db, now, issued, users, registered>>

\* storeOAuthProvider: the awaited update or insert, then the reply
CbWrite(p) ==
    /\ pc[p] = "write"
    /\ LET r == loc[p].resp
           data == CallbackData(r.token, r.profileId)
           row == NewRow(FreshId, r.userId, "linkedin", data, loc[p].tokenExpiresAt)
       IN  IF loc[p].existing # {}
           THEN /\ db' = UpdateExisting(db, CHOOSE e \in loc[p].existing : TRUE,
                                        data, loc[p].tokenExpiresAt)
                /\ Finish(p, StoreReturned(r))
           ELSE IF InsertThrows(db, row) # ""
           THEN /\ db' = db
                /\ Finish(p, StoreThrew(r, InsertThrows(db, row)))
           ELSE /\ db' = db \cup {row}
                /\ Finish(p, StoreReturned(r))
    /\ UNCHANGED <<now, issued, users, registered>>

\* a disconnect arrives between the steps of the callbacks
ConcDisconnect ==
    \E session \in ConcUsers :
        LET res == linkedInDisconnect(db, session)
        IN  /\ resp' = res.resp
            /\ db' = res.rows
            /\ UNCHANGED <<now, issued, pc, loc, users, registered>>

ConcNext ==
    \/ \E p \in Procs : CbStart(p)
    \/ \E p \in Procs : CbExchange(p)
    \/ \E p \in Procs : CbProfile(p)
    \/ \E p \in Procs : CbSelect(p)
    \/ \E p \in Procs : CbWrite(p)
    \/ ConcDisconnect

ConcSpec == Init /\ [][ConcNext]_vars

(* ----------------- status over any row of the schema ------------------- *)
\* the rows oauth_providers admits for one connection: refresh_token,
\* token_expires_at and scopes are nullable columns
SchemaRows ==
    {Row(1, u, "linkedin", "p1", "a1", rt, at, sc) :
        u \in Users, rt \in {Null, "r1"}, at \in {NullTime, 1000, 2000},
        sc \in {NullScopes, Scopes(<<>>), Scopes(<<"openid">>), Scopes(CallbackScopes)}}

RowInit ==
    /\ db \in {{r} : r \in SchemaRows}
    /\ now = 0
    /\ issued = {}
    /\ resp = NoResp
    /\ pc = [p \in Procs |-> "idle"]
    /\ loc = [p \in Procs |-> NoLocals]
    /\ users = {}
    /\ registered = {}

RowNext == Status \/ Tick

RowSpec == RowInit /\ [][RowNext]_vars

(* ------------- status and disconnect over several rows ----------------- *)
\* the stores oauth_providers admits for the two users and the two values
\* of the provider enum: at most one row for each (user, provider) pair
PairId(userId, provider) ==
    (IF userId = "u1" THEN 1 ELSE 2) + (IF provider = "linkedin" THEN 0 ELSE 2)
ConnectionRows ==
    {Row(PairId(u, p), u, p, AccountOf("a1"), "a1", "r1", at, Scopes(CallbackScopes)) :
        u \in Users, p \in Providers, at \in {1000, 2000}}
ConnectionStores ==
    {S \in SUBSET ConnectionRows : \A r \in S : ~UniqueViolation(S \ {r}, r)}

PairInit ==
    /\ db \in ConnectionStores
    /\ now = 0
    /\ issued = {}
    /\ resp = NoResp
    /\ pc = [p \in Procs |-> "idle"]
    /\ loc = [p \in Procs |-> NoLocals]
    /\ users = {}
    /\ registered = {}

PairNext == Status \/ Disconnect

PairSpec == PairInit /\ [][PairNext]_vars

(* ------------------------ register and login --------------------------- *)
\* the stores the service starts from: no user, or one user whose row
\* carries no password hash
PasswordlessUser == UserRow(1, "b@x.io", "Bob", NullHash, DefaultPreferences)

AuthInit ==
    /\ db = {}
    /\ now = 0
    /\ issued = {}
    /\ resp = NoReply
    /\ pc = [p \in Procs |-> "idle"]
    /\ loc = [p \in Procs |-> NoLocals]
    /\ users \in {{}, {PasswordlessUser}}
    /\ registered = {}

\* defaultRandom(): an id that no user has
FreshUserId ==
    CHOOSE i \in UserIds :
        /\ \A u \in users : u.id # i
        /\ \A j \in UserIds : (\A u \in users : u.id # j) => i <= j

Register ==
    \E email \in BodyEmails, name \in BodyNames, password \in BodyPasswords, salt \in Salts :
        LET body == [email |-> email, name |-> name, password |-> password]
            res == AuthController_register(users, body, salt, FreshUserId)
        IN  /\ resp' = res.resp
            /\ users' = res.rows
            /\ registered' =
                  IF res.resp.status = 201
                  THEN registered \cup {[email |-> email, password |-> password,
                                         id |-> res.resp.userId]}
                  ELSE registered
            /\ UNCHANGED <<db, now, issued, pc, loc>>

Login ==
    \E email \in BodyEmails, password \in LoginPasswords :
        /\ resp' = AuthController_login(users, [email |-> email, password |-> password])
        /\ UNCHANGED <<db, now, issued, pc, loc, users, registered>>

AuthNext == Register \/ Login

AuthSpec == AuthInit /\ [][AuthNext]_vars

(* ------------------------- properties, Spec ---------------------------- *)
Linkedin(rows, userId) == FindRows(rows, userId, "linkedin")

\* C2: a reconnect that carries no refresh token leaves the stored refresh
\* token as it was, one that carries a refresh token stores that one; the
\* upsert never turns a present refresh token into an absent one.
C2_RefreshKept ==
    [][\A u \in Users : \A old \in Linkedin(db, u) :
          (/\ old.refreshToken # Null
           /\ resp'.op = "callback" /\ resp'.status = 200 /\ resp'.userId = u)
          => /\ Linkedin(db', u) # {}
             /\ \A new \in Linkedin(db', u) :
                  /\ new.refreshToken # Null
                  /\ new.refreshToken =
                        IF resp'.token.refreshToken = Undefined
                        THEN old.refreshToken ELSE resp'.token.refreshToken]_vars

\* C2 witness: a reconnect without a refresh token has completed and the
\* row still holds a refresh token
C2_Witness ==
    /\ resp.op = "callback" /\ resp.status = 200
    /\ resp.token.refreshToken = Undefined
    /\ \E r \in Linkedin(db, resp.userId) :
          r.refreshToken \in RefreshTokens /\ r.accessToken = resp.token.accessToken

\* C4: a callback whose exchange or profile call fails answers 500 and
\* leaves the store as it was; the store changes in a callback only after
\* both calls succeeded.
C4_NoPartialPersistence ==
    [][resp'.op = "callback"
       => /\ resp'.threw \in {"exchange", "profile"} => (resp'.status = 500 /\ db' = db)
          /\ db' # db => (resp'.calls = <<"exchange", "profile">> /\ resp'.threw = "")]_vars

\* C4 witness: a profile fetch failed after a successful exchange while the
\* store held a row
C4_Witness ==
    /\ resp.op = "callback" /\ resp.threw = "profile" /\ resp.status = 500
    /\ db # {}

\* the state parameter is present but the decode throws: the text is not
\* JSON, or it is the JSON null whose property read throws
FailsToDecode(state) == FromBase64(state).t \in {"garbage", "null"}

DecodesWithoutUser(state) ==
    /\ FromBase64(state).t = "object"
    /\ \A p \in SeqRange(FromBase64(state).pairs) : p[1] # "userId"

\* C6: a callback whose state decodes but lacks the user id is answered 400
\* and makes no provider call.
C6_MissingUserIdRejected ==
    (resp.op = "callback" /\ resp.code # "" /\ DecodesWithoutUser(resp.state))
    => (resp.status = 400 /\ resp.calls = <<>>)

\* C7: a callback creates or changes a row of user u only if its state was
\* returned earlier by a connect request of u.
C7_StateBoundToConnect ==
    [][\A u \in Users :
          (resp'.op = "callback" /\ Linkedin(db', u) # Linkedin(db, u))
          => <<resp'.state, u>> \in issued]_vars

\* C8: after a successful upsert the stored record has the provider user
\* id, access token, expiry and scopes just upserted, and the refresh token
\* when one was supplied.
C8_RoundTrip ==
    (resp.op = "callback" /\ resp.status = 200)
    => /\ getOAuthProvider(db, resp.userId, "linkedin") # {}
       /\ \A r \in getOAuthProvider(db, resp.userId, "linkedin") :
            /\ r.providerUserId = resp.profileId
            /\ r.accessToken = resp.token.accessToken
            /\ r.tokenExpiresAt = now + resp.token.expiresIn * 1000
            /\ r.scopes = Scopes(CallbackScopes)
            /\ resp.token.refreshToken # Undefined
                 => r.refreshToken = resp.token.refreshToken

\* C9: a callback that carries the state a connect request returned to u,
\* and whose exchange and profile fetch succeed, stores the connection
\* under u and under nobody else; the row stays until u disconnects; a
\* status check by u while the row is there reports connected=true.
C9_ConnectCallbackStatus ==
    [][\A u \in Users :
          /\ (/\ resp'.op = "callback" /\ resp'.code # ""
              /\ <<resp'.state, u>> \in issued
              /\ resp'.threw \notin {"exchange", "profile"})
             => /\ resp'.status = 200
                /\ Linkedin(db', u) # {}
                /\ \A v \in Users \ {u} : Linkedin(db', v) = Linkedin(db, v)
          /\ (Linkedin(db, u) # {} /\ Linkedin(db', u) = {})
             => (resp'.op = "disconnect" /\ resp'.session = u)
          /\ (resp'.op = "status" /\ resp'.session = u /\ Linkedin(db, u) # {})
             => (resp'.status = 200 /\ resp'.connected = "true")]_vars

\* C9 witness: u's status check reports connected after u's connect
C9_Witness ==
    /\ resp.op = "status" /\ resp.connected = "true"
    /\ \E n \in Nonces : <<EncodeState(n, resp.session), resp.session>> \in issued
    /\ \A v \in Users \ {resp.session} : Linkedin(db, v) = {}

(* ----------------------- properties, ConcSpec -------------------------- *)
\* C1: the store never holds two rows for one (userId, provider) pair.
C1_OneRowPerPair ==
    \A u \in Users, prov \in Providers : Cardinality(FindRows(db, u, prov)) <= 1

\* C1 witness: a callback for a pair that already had a row has completed;
\* the row it updated is the single row of the pair
C1_Witness ==
    /\ resp.op = "callback" /\ resp.status = 200
    /\ Cardinality(Linkedin(db, resp.userId)) = 1
    /\ \E r \in Linkedin(db, resp.userId) :
          r.accessToken = resp.token.accessToken /\ r.providerUserId # resp.profileId

\* C3: a callback that reaches the write of storeOAuthProvider completes
\* successfully whatever another callback for the same pair does meanwhile,
\* it never fails on the uniqueness constraint, and the row then holds the
\* tokens it wrote.
C3_ConcurrentCallbacksSucceed ==
    [][\A p \in Procs :
          (pc[p] = "write" /\ pc'[p] = "idle")
          => /\ resp'.threw # "insert:unique"
             /\ resp'.status = 200
             /\ \E r \in Linkedin(db', resp'.userId) :
                  r.accessToken = resp'.token.accessToken]_vars

C11_StatusNotConnected ==
    [][(/\ resp'.op = "status" /\ resp'.session \in Users
        /\ Linkedin(db, resp'.session) = {})
       => /\ resp'.status = 200
          /\ resp'.connected = "false"
          /\ resp'.canPost = "false"
          /\ db' = db]_vars

\* C11 witness: a user without a row was told connected = false while
\* another user's connection is stored
C11_Witness ==
    /\ resp.op = "status" /\ resp.session \in Users
    /\ resp.status = 200 /\ resp.connected = "false" /\ resp.canPost = "false"
    /\ Linkedin(db, resp.session) = {}
    /\ \E u \in Users : u # resp.session /\ Linkedin(db, u) # {}

\* C12: a disconnect by an authenticated user answers 200 whether or not
\* the user has a linkedin row and leaves the user without one; a disconnect
\* that finds no row, such as a second one right after the first, also
\* answers 200 and leaves the store as it was.
C12_DisconnectIdempotent ==
    [][(resp'.op = "disconnect" /\ resp'.session \in Users)
       => /\ resp'.status = 200
          /\ Linkedin(db', resp'.session) = {}
          /\ (Linkedin(db, resp'.session) = {} => db' = db)
          /\ (resp.op = "disconnect" /\ resp.session = resp'.session => db' = db)]_vars

\* C12 witness: a disconnect succeeded for a user who is left without a
\* row while another user's row is still stored
C12_Witness ==
    /\ resp.op = "disconnect" /\ resp.session \in Users /\ resp.status = 200
    /\ Linkedin(db, resp.session) = {}
    /\ \E u \in Users : u # resp.session /\ Linkedin(db, u) # {}

C18_NoRetry ==
    [][resp'.op = "callback"
       => /\ resp'.calls \in {<<>>, <<"exchange">>, <<"exchange", "profile">>}
          /\ (resp'.threw = "exchange"
                => resp'.calls = <<"exchange">> /\ resp'.status = 500 /\ db' = db)
          /\ (resp'.threw = "profile"
                => /\ resp'.calls = <<"exchange", "profile">>
                   /\ resp'.status = 500 /\ db' = db)
          /\ (resp'.status = 200 => resp'.calls = <<"exchange", "profile">>)]_vars

\* C18 witness: a callback ended with 500 after its one exchange call failed
C18_Witness ==
    /\ resp.op = "callback" /\ resp.threw = "exchange" /\ resp.status = 500
    /\ resp.calls = <<"exchange">>

\* C13: isTokenExpired answers true for an unset expiry and for an expiry
\* at or before the current time, the instant of expiry included, and false
\* for an expiry strictly after the current time; the status reply carries
\* its answer as needsRefresh.
C13_TokenExpired ==
    (resp.op = "status" /\ resp.status = 200 /\ resp.connected = "true")
    => \A r \in Linkedin(db, resp.session) :
          /\ (r.tokenExpiresAt = NullTime => resp.needsRefresh = "true")
          /\ (r.tokenExpiresAt # NullTime /\ now >= r.tokenExpiresAt
                => resp.needsRefresh = "true")
          /\ (r.tokenExpiresAt # NullTime /\ now < r.tokenExpiresAt
                => resp.needsRefresh = "false")

\* C13 witness: a status check made at the very instant the stored token
\* expires reported it expired
C13_Witness ==
    /\ resp.op = "status" /\ resp.status = 200 /\ resp.needsRefresh = "true"
    /\ \E r \in Linkedin(db, resp.session) : r.tokenExpiresAt = now

\* C19: when a callback that found an existing row writes its update, a
\* refresh token stored at that moment is not lost: the row still holds a
\* refresh token afterwards, and an update that carries none leaves the
\* stored one, which another callback may have committed since the read,
\* in place.
C19_ConcurrentRefreshKept ==
    [][\A p \in Procs :
          (pc[p] = "write" /\ pc'[p] = "idle" /\ loc[p].existing # {})
          => \A old \in Linkedin(db, loc[p].resp.userId) :
               \A new \in Linkedin(db', loc[p].resp.userId) :
                  old.refreshToken # Null
                  => /\ new.refreshToken # Null
                     /\ (loc[p].resp.token.refreshToken = Undefined
                           => new.refreshToken = old.refreshToken)]_vars

\* C20: a disconnect by user V removes V's linkedin row and nothing else:
\* every row of another user and every row of V for another provider stays
\* as it was; a status check by V changes no row and reports V's own
\* linkedin row, whatever rows other users or other providers have.
C20_PerUserIsolation ==
    [][\A v \in Users :
          /\ (resp'.op = "disconnect" /\ resp'.session = v)
             => /\ db' \subseteq db
                /\ \A r \in db : (r.userId # v \/ r.provider # "linkedin") => r \in db'
          /\ (resp'.op = "status" /\ resp'.session = v)
             => /\ db' = db
                /\ resp'.connected = Bool(Linkedin(db, v) # {})
                /\ \A r \in Linkedin(db, v) : resp'.expiresAt = r.tokenExpiresAt
                /\ (Linkedin(db, v) = {} => resp'.expiresAt = NullTime)]_vars

\* C20 witness: a user's disconnect left the user's google row and another
\* user's linkedin row in the store
C20_Witness ==
    /\ resp.op = "disconnect" /\ resp.session \in Users /\ resp.status = 200
    /\ Linkedin(db, resp.session) = {}
    /\ FindRows(db, resp.session, "google") # {}
    /\ \E u \in Users : u # resp.session /\ Linkedin(db, u) # {}

(* ----------------------- properties, AuthSpec -------------------------- *)
\* C15: a login with the email and the password a successful register was
\* given succeeds and returns the user id that register returned, whatever
\* registers and logins were handled in between.
C15_RegisterThenLogin ==
    [][\A g \in registered :
          (resp'.op = "login" /\ resp'.email = g.email /\ resp'.password = g.password)
          => resp'.status = 200 /\ resp'.userId = g.id]_vars

\* C15 witness: a login of a registered user succeeded with that user's id
\* after a later register created another user
C15_Witness ==
    /\ resp.op = "login" /\ resp.status = 200
    /\ \E g, h \in registered :
          /\ g.email = resp.email /\ g.password = resp.password /\ g.id = resp.userId
          /\ h.id > g.id

\* C16: a register that reaches the service with an email some user has
\* throws the duplicate-email error and is answered 409, and the rows of
\* users stay as they were; no two rows of users ever share an email.
C16_DuplicateEmail ==
    [][/\ (/\ resp'.op = "register" /\ resp'.status # 400
           /\ FindByEmail(users, resp'.email) # {})
          => /\ resp'.threw = EmailExists
             /\ resp'.status = 409
             /\ users' = users
       /\ \A u, v \in users' : u.email = v.email => u = v]_vars

\* C16 witness: a register with the email of a user, under another name and
\* password, was answered 409
C16_Witness ==
    /\ resp.op = "register" /\ resp.status = 409
    /\ \E u \in FindByEmail(users, resp.email) :
          /\ u.name # resp.name
          /\ u.passwordHash # NullHash
          /\ ~verifyPassword(resp.password, u.passwordHash)

\* C17: a login for an email no user has, for a user whose row has no
\* password hash, and for a user with another password is answered with
\* one and the same reply: 401 Unauthorized, "Invalid email or password",
\* no user id.
C17_LoginFailsAlike ==
    [][(/\ resp'.op = "login" /\ resp'.status # 400
        /\ \/ FindByEmail(users, resp'.email) = {}
           \/ \E u \in FindByEmail(users, resp'.email) : u.passwordHash = NullHash
           \/ \A g \in registered :
                 g.email = resp'.email => g.password # resp'.password)
       => /\ resp'.status = 401
          /\ resp'.error = "Unauthorized"
          /\ resp'.message = "Invalid email or password"
          /\ resp'.userId = NoUserId]_vars

\* C17 witness: a login for a user whose row has no password hash was
\* answered 401
C17_Witness ==
    /\ resp.op = "login" /\ resp.status = 401
    /\ \E u \in FindByEmail(users, resp.email) : u.passwordHash = NullHash

====
